---- MODULE Spec2Model ----
(***************************************************************************)
(* Model of the generic Trie of cpp/include/Trie.hpp and its node type of  *)
(* cpp/include/TrieNode.hpp.                                               *)
(*                                                                         *)
(* A node is owned by exactly one parent through the parent's children     *)
(* map, so a node is identified by the character sequence that leads to it *)
(* from the root.  The whole node graph owned by Trie::root is the         *)
(* function `tree`: its domain is the set of live nodes, and tree[n] holds *)
(* the two fields of TrieNode: the key set of `children` and the optional  *)
(* `value`.  The child of n under character c is the node Append(n, c).    *)
(* std::optional<T> is a set with at most one element.                     *)
(***************************************************************************)
EXTENDS Integers, Sequences, FiniteSets, TLC

VARIABLES tree, ref, last

vars == <<tree, ref, last>>

\* ---------------------------------------------------------------- bounds
\* MaxNodes caps the number of nodes below the root that an insert may leave
\* allocated; MaxLimit is the largest limit passed to autocomplete.
MaxNodes == 3
MaxLimit == 3

\* The inputs of the calls: keys and prefixes are the strings of at most two
\* characters over a two-letter alphabet, values are two distinct ints, and
\* limits run from the -1 sentinel up to MaxLimit.
Alphabet == {"a", "b"}
Values == {1, 2}
Keys ==
  {<<>>} \cup {<<c>> : c \in Alphabet} \cup {<<c, d>> : c, d \in Alphabet}
Limits == (-1)..MaxLimit

\* ------------------------------------------------------- std::optional<T>
nullopt == {}
Some(v) == {v}
has_value(o) == o # {}
deref(o) == CHOOSE v \in o : TRUE

\* ------------------------------------------------------------- int limits
\* numeric_limits<unsigned int>::max() is 2^32 - 1; it is held as two 16-bit
\* halves, and ToInt is the conversion of an unsigned int to a 32-bit int
\* (modulo 2^32).
Half == 65536
HalfSign == 32768
UIntMax == [hi |-> Half - 1, lo |-> Half - 1]
ToInt(u) ==
  IF u.hi >= HalfSign THEN (u.hi - Half) * Half + u.lo ELSE u.hi * Half + u.lo

\* ---------------------------------------------------------------- TrieNode
Root == <<>>
NullPtr == <<"nullptr">>
NewNode == [children |-> {}, value |-> nullopt]

IsPrefix(p, k) == Len(p) <= Len(k) /\ SubSeq(k, 1, Len(p)) = p

hasChildrenEmpty(t, n) == t[n].children = {}
hasChildren(t, n) == t[n].children # {}

getChild(t, n, key) ==
  IF key \in t[n].children THEN Append(n, key) ELSE NullPtr

addChildReplace(t, n, key) ==
  LET t0 == IF key \in t[n].children
            THEN [m \in {x \in DOMAIN t : ~IsPrefix(Append(n, key), x)} |->
                    t[m]]
            ELSE t
  IN [m \in DOMAIN t0 \cup {Append(n, key)} |->
        IF m = Append(n, key) THEN NewNode
        ELSE IF m = n THEN [t0[n] EXCEPT !.children = @ \cup {key}]
        ELSE t0[m]]
addChild(t, n, key) ==
  IF key \in t[n].children THEN t
  ELSE [m \in DOMAIN t \cup {Append(n, key)} |->
          IF m = Append(n, key) THEN NewNode
          ELSE IF m = n THEN [t[n] EXCEPT !.children = @ \cup {key}]
          ELSE t[m]]

\* children.erase(key) destroys the unique_ptr and with it the whole subtree.
removeChild(t, n, key) ==
  [m \in {x \in DOMAIN t : ~IsPrefix(Append(n, key), x)} |->
     IF m = n THEN [t[n] EXCEPT !.children = @ \ {key}] ELSE t[m]]

isEnd(t, n) == has_value(t[n].value)
getValue(t, n) == t[n].value

clearValueKeep(t, n) == t
clearValue(t, n) == [t EXCEPT ![n].value = nullopt]

setValueFirst(t, n, v) ==
  IF has_value(t[n].value) THEN t ELSE [t EXCEPT ![n].value = Some(v)]
setValue(t, n, v) == [t EXCEPT ![n].value = Some(v)]

\* -------------------------------------------------------------------- Trie
EmptyTrie == [n \in {Root} |-> NewNode]

RECURSIVE insertWalk(_, _, _, _)
insertWalk(t, current, key, i) ==
  IF i > Len(key) THEN [tree |-> t, current |-> current]
  ELSE insertWalk(addChild(t, current, key[i]), Append(current, key[i]),
                  key, i + 1)

\* The number of nodes the walk of insert allocates: addChild calls
\* make_unique exactly when it changes the children map it is given.
RECURSIVE insertMade(_, _, _, _)
insertMade(t, current, key, i) ==
  IF i > Len(key) THEN 0
  ELSE (IF addChild(t, current, key[i]) = t THEN 0 ELSE 1)
       + insertMade(addChild(t, current, key[i]), Append(current, key[i]),
                    key, i + 1)

insertMarkPath(t, key, value) ==
  LET w == insertWalk(t, Root, key, 1)
  IN [n \in DOMAIN w.tree |->
        IF n # Root /\ IsPrefix(n, key)
        THEN [w.tree[n] EXCEPT !.value = Some(value)]
        ELSE w.tree[n]]
insert(t, key, value) ==
  LET w == insertWalk(t, Root, key, 1)
  IN IF ~has_value(getValue(w.tree, w.current))
        \/ deref(getValue(w.tree, w.current)) # value
     THEN setValue(w.tree, w.current, value)
     ELSE w.tree

RECURSIVE getWalk(_, _, _, _)
getWalk(t, current, key, i) ==
  IF i > Len(key) THEN current
  ELSE LET next == getChild(t, current, key[i])
       IN IF next = NullPtr THEN NullPtr ELSE getWalk(t, next, key, i + 1)

get(t, key) ==
  LET current == getWalk(t, Root, key, 1)
  IN IF current = NullPtr THEN nullopt ELSE getValue(t, current)

\* The node graph a const walk leaves behind: TrieNode::getChild looks the
\* key up with children.find, which inserts nothing, and the walk stops at
\* the first missing child.
getChildIndexed(t, n, key) == addChild(t, n, key)
getChildKeeps(t, n, key) == t

RECURSIVE constWalk(_, _, _, _)
constWalk(t, current, key, i) ==
  IF i > Len(key) THEN t
  ELSE LET t2 == getChildKeeps(t, current, key[i])
           next == getChild(t2, current, key[i])
       IN IF next = NullPtr THEN t2 ELSE constWalk(t2, next, key, i + 1)
RECURSIVE removeWalk(_, _, _, _, _)
removeWalk(t, current, key, i, path) ==
  IF i > Len(key) THEN [ok |-> TRUE, current |-> current, path |-> path]
  ELSE LET next == getChild(t, current, key[i])
       IN IF next = NullPtr
          THEN [ok |-> FALSE, current |-> NullPtr, path |-> path]
          ELSE removeWalk(t, next, key, i + 1,
                          Append(path, [node |-> current, edge |-> key[i]]))

RECURSIVE pruneLoop(_, _, _)
pruneLoop(t, path, i) ==
  IF i < 1 THEN t
  ELSE LET parent == path[i].node
           edge == path[i].edge
           child == getChild(t, parent, edge)
       IN IF child # NullPtr /\ ~hasChildren(t, child) /\ ~isEnd(t, child)
          THEN pruneLoop(removeChild(t, parent, edge), path, i - 1)
          ELSE t

pruneNever(t, path) == t
pruneUnlessEnd(t, path) ==
  IF path = <<>> \/ isEnd(t, Append(path[Len(path)].node, path[Len(path)].edge))
  THEN t
  ELSE removeChild(t, path[Len(path)].node, path[Len(path)].edge)
pruneLeafOnly(t, path) ==
  IF path = <<>> THEN t
  ELSE LET parent == path[Len(path)].node
           edge == path[Len(path)].edge
           child == getChild(t, parent, edge)
       IN IF child # NullPtr /\ ~hasChildren(t, child) /\ ~isEnd(t, child)
          THEN removeChild(t, parent, edge)
          ELSE t
prune(t, path) == pruneLoop(t, path, Len(path))

removeNoEndCheck(t, key) ==
  LET w == removeWalk(t, Root, key, 1, <<>>)
  IN IF ~w.ok THEN [tree |-> t, ret |-> FALSE]
     ELSE [tree |-> prune(clearValue(t, w.current), w.path), ret |-> TRUE]
removeResetRoot(t, key) ==
  LET w == removeWalk(t, Root, key, 1, <<>>)
  IN IF ~w.ok THEN [tree |-> t, ret |-> FALSE]
     ELSE IF ~isEnd(t, w.current) THEN [tree |-> t, ret |-> FALSE]
     ELSE IF w.current = Root THEN [tree |-> EmptyTrie, ret |-> TRUE]
     ELSE [tree |-> prune(clearValue(t, w.current), w.path), ret |-> TRUE]
remove(t, key) ==
  LET w == removeWalk(t, Root, key, 1, <<>>)
  IN IF ~w.ok THEN [tree |-> t, ret |-> FALSE]
     ELSE IF ~isEnd(t, w.current) THEN [tree |-> t, ret |-> FALSE]
     ELSE [tree |-> prune(clearValue(t, w.current), w.path), ret |-> TRUE]

prefixSearchEndOnly(t, prefix) ==
  LET current == getWalk(t, Root, prefix, 1)
  IN current # NullPtr /\ isEnd(t, current)
prefixSearch(t, prefix) == getWalk(t, Root, prefix, 1) # NullPtr

\* The iteration order of an unordered_map is not fixed: every enumeration of
\* a node's children is a possible order of the pushes onto the DFS stack.
RECURSIVE Orders(_)
Orders(S) ==
  IF S = {} THEN {<<>>}
  ELSE UNION {{<<x>> \o o : o \in Orders(S \ {x})} : x \in S}

RECURSIVE dfsLoopInclusive(_, _, _, _)
dfsLoopInclusive(t, dfs, results, limit) ==
  IF dfs = <<>> \/ ~(Len(results) <= limit) THEN {results}
  ELSE LET node == dfs[Len(dfs)]
           rest == SubSeq(dfs, 1, Len(dfs) - 1)
           res2 == IF isEnd(t, node)
                   THEN Append(results, deref(getValue(t, node)))
                   ELSE results
       IN UNION {dfsLoopInclusive(t, rest \o o, res2, limit) :
                   o \in Orders({Append(node, c) : c \in t[node].children})}

RECURSIVE dfsLoop(_, _, _, _)
dfsLoop(t, dfs, results, limit) ==
  IF dfs = <<>> \/ ~(Len(results) < limit) THEN {results}
  ELSE LET node == dfs[Len(dfs)]
           rest == SubSeq(dfs, 1, Len(dfs) - 1)
           res2 == IF isEnd(t, node)
                   THEN Append(results, deref(getValue(t, node)))
                   ELSE results
       IN UNION {dfsLoop(t, rest \o o, res2, limit) :
                   o \in Orders({Append(node, c) : c \in t[node].children})}

\* The set of results autocomplete can return, one per iteration order.
autocompleteInclusive(t, prefix, limit) ==
  LET lim == IF limit = -1 THEN ToInt(UIntMax) ELSE limit
      start == getWalk(t, Root, prefix, 1)
  IN IF start = NullPtr THEN {<<>>}
     ELSE dfsLoopInclusive(t, <<start>>, <<>>, lim)
autocompleteBelow(t, prefix, limit) ==
  LET lim == IF limit = -1 THEN ToInt(UIntMax) ELSE limit
      start == getWalk(t, Root, prefix, 1)
  IN IF start = NullPtr THEN {<<>>}
     ELSE UNION {dfsLoop(t, o, <<>>, lim) :
                   o \in Orders({Append(start, c) : c \in t[start].children})}
autocomplete(t, prefix, limit) ==
  LET lim == IF limit = -1 THEN ToInt(UIntMax) ELSE limit
      start == getWalk(t, Root, prefix, 1)
  IN IF start = NullPtr THEN {<<>>}
     ELSE dfsLoop(t, <<start>>, <<>>, lim)

\* ------------------------------------------------------------ state machine
\* ref is the reference map run side by side with the trie; last records the
\* most recent call: its arguments, its return value, the tree before it and
\* the number of nodes it allocated.
NoCall ==
  [op |-> "init", key |-> <<>>, value |-> 0, limit |-> 0,
   found |-> FALSE, got |-> nullopt, results |-> <<>>, pre |-> EmptyTrie,
   made |-> 0]

Init ==
  /\ tree = EmptyTrie
  /\ ref = [k \in Keys |-> nullopt]
  /\ last = NoCall

Insert(k, v) ==
  /\ Cardinality(DOMAIN insert(tree, k, v)) - 1 <= MaxNodes
  /\ tree' = insert(tree, k, v)
  /\ ref' = [ref EXCEPT ![k] = Some(v)]
  /\ last' = [NoCall EXCEPT !.op = "insert", !.key = k, !.value = v,
                            !.pre = tree,
                            !.made = insertMade(tree, Root, k, 1)]

Remove(k) ==
  LET r == remove(tree, k)
  IN /\ tree' = r.tree
     /\ ref' = [ref EXCEPT ![k] = nullopt]
     /\ last' = [NoCall EXCEPT !.op = "remove", !.key = k, !.found = r.ret,
                               !.pre = tree]

Get(k) ==
  /\ last' = [NoCall EXCEPT !.op = "get", !.key = k, !.got = get(tree, k),
                            !.pre = tree]
  /\ tree' = constWalk(tree, Root, k, 1)
  /\ UNCHANGED ref

PrefixSearch(p) ==
  /\ last' = [NoCall EXCEPT !.op = "prefixSearch", !.key = p,
                            !.found = prefixSearch(tree, p), !.pre = tree]
  /\ tree' = constWalk(tree, Root, p, 1)
  /\ UNCHANGED ref

Autocomplete(p, l) ==
  /\ \E res \in autocomplete(tree, p, l) :
       last' = [NoCall EXCEPT !.op = "autocomplete", !.key = p, !.limit = l,
                              !.results = res, !.pre = tree]
  /\ tree' = constWalk(tree, Root, p, 1)
  /\ UNCHANGED ref

Next ==
  \/ \E k \in Keys, v \in Values : Insert(k, v)
  \/ \E k \in Keys : Remove(k)
  \/ \E k \in Keys : Get(k)
  \/ \E p \in Keys : PrefixSearch(p)
  \/ \E p \in Keys, l \in Limits : Autocomplete(p, l)

Spec == Init /\ [][Next]_vars

\* ------------------------------------------------------------------ claims
\* Vocabulary of the claims, read off the state and not off the operations.
StoredKeys == {k \in Keys : ref[k] # nullopt}
Terminals(t) == {n \in DOMAIN t : t[n].value # nullopt}
Matches(p) == {k \in StoredKeys : IsPrefix(p, k)}
Min(a, b) == IF a <= b THEN a ELSE b
Count(s, v) == Cardinality({i \in 1..Len(s) : s[i] = v})
Parent(n) == SubSeq(n, 1, Len(n) - 1)

\* The tree is a well-formed ownership tree: the root is always there, every
\* other node hangs under its parent's children map, and every children key
\* leads to a live node.
WellFormed ==
  /\ Root \in DOMAIN tree
  /\ \A n \in DOMAIN tree \ {Root} :
       Parent(n) \in DOMAIN tree /\ n[Len(n)] \in tree[Parent(n)].children
  /\ \A n \in DOMAIN tree : \A c \in tree[n].children :
       Append(n, c) \in DOMAIN tree

\* C1: after any sequence of insert and remove calls, get(k) is, for every
\* key k (the empty key included), what a reference map given the same calls
\* holds for k, and a get call returns exactly that.
C1_RefinesMap ==
  /\ \A k \in Keys : get(tree, k) = ref[k]
  /\ last.op = "get" => last.got = ref[last.key]

\* A get has returned a stored value while another key, inserted earlier and
\* removed since or never inserted, is absent from a non-empty map.
C1_Witness ==
  /\ last.op = "get"
  /\ last.got # nullopt
  /\ Cardinality(StoredKeys) >= 2
  /\ \E k \in Keys : k \in DOMAIN tree /\ ref[k] = nullopt

\* C2: immediately after insert(k, v), get(k) returns v, whatever k's node
\* was before the insert.
C2_InsertThenGet ==
  last.op = "insert" => get(tree, last.key) = Some(last.value)

\* The insert overwrote a different value stored under the same key.
C2_Witness ==
  /\ last.op = "insert"
  /\ last.key \in DOMAIN last.pre
  /\ isEnd(last.pre, last.key)
  /\ getValue(last.pre, last.key) # Some(last.value)

\* C3: once k is stored by an insert, remove(k) returns true, get(k) is then
\* absent, and a second remove(k) returns false.
C3_RemoveAfterInsert ==
  /\ last.op = "insert" =>
       LET r1 == remove(tree, last.key)
           r2 == remove(r1.tree, last.key)
       IN r1.ret /\ get(r1.tree, last.key) = nullopt /\ ~r2.ret
  /\ (last.op = "remove" /\ get(last.pre, last.key) # nullopt) =>
       /\ last.found
       /\ get(tree, last.key) = nullopt
       /\ ~remove(tree, last.key).ret

\* A stored key whose node has children was removed: the node survives the
\* remove, and the second remove finds it without a value.
C3_Witness ==
  /\ last.op = "remove"
  /\ last.found
  /\ last.key \in DOMAIN tree
  /\ get(last.pre, last.key) # nullopt

\* C4: remove(k) of a key that is not stored, whether a character of k has
\* no child or k's node holds no value, returns false and leaves every node
\* and every value as it was.
C4_RemoveAbsentNoChange ==
  (last.op = "remove" /\ get(last.pre, last.key) = nullopt) =>
    /\ ~last.found
    /\ tree = last.pre
    /\ \A k \in Keys : get(tree, k) = get(last.pre, k)

\* The removed key's whole path exists, its node holds no value, and other
\* keys are stored.
C4_Witness ==
  /\ last.op = "remove"
  /\ ~last.found
  /\ last.key # Root
  /\ last.key \in DOMAIN last.pre
  /\ StoredKeys # {}

\* C5: between operations every node other than the root has a child or
\* holds a value.
C5_NoDeadNodes ==
  \A n \in DOMAIN tree \ {Root} :
    tree[n].children # {} \/ tree[n].value # nullopt

\* A remove pruned a chain of two nodes and left other nodes in place.
C5_Witness ==
  /\ last.op = "remove"
  /\ last.found
  /\ Cardinality(DOMAIN last.pre) = Cardinality(DOMAIN tree) + 2
  /\ DOMAIN tree # {Root}

\* C6: a successful remove(k) destroys exactly the nodes reached by k's
\* characters that are a prefix of no other stored key; they form a chain of
\* at most |k| nodes that ends at k's node; every node that is a prefix of a
\* surviving key stays, and every other key keeps its value.
C6_PruneMinimal ==
  (last.op = "remove" /\ last.found) =>
    LET k == last.key
        pre == last.pre
        gone == DOMAIN pre \ DOMAIN tree
        others == Terminals(pre) \ {k}
        private == {p \in DOMAIN pre :
                      /\ p # Root
                      /\ IsPrefix(p, k)
                      /\ ~\E o \in others : IsPrefix(p, o)}
    IN /\ DOMAIN tree \subseteq DOMAIN pre
       /\ gone = private
       /\ Cardinality(gone) <= Len(k)
       /\ \A p \in gone : \A i \in Len(p)..Len(k) : SubSeq(k, 1, i) \in gone
       /\ \A o \in others : \A p \in DOMAIN pre :
            IsPrefix(p, o) => p \in DOMAIN tree
       /\ \A o \in Keys \ {k} : get(tree, o) = get(pre, o)

\* "aa" was removed while its sibling was stored: only the node of "aa" went
\* and the shared, valueless parent stayed.
C6_Witness ==
  /\ last.op = "remove"
  /\ last.found
  /\ Len(last.key) = 2
  /\ last.key \notin DOMAIN tree
  /\ Parent(last.key) \in DOMAIN tree
  /\ ~isEnd(tree, Parent(last.key))
  /\ Cardinality(DOMAIN last.pre) = Cardinality(DOMAIN tree) + 1

\* C7: when the stored key k is a strict prefix of another stored key,
\* remove(k) returns true, clears the value of k's node and deletes no node;
\* get(k) is then absent, prefixSearch(k) is true and the longer keys keep
\* their values.
C7_FalseLeafKept ==
  (/\ last.op = "remove"
   /\ last.key \in Terminals(last.pre)
   /\ \E o \in Terminals(last.pre) : o # last.key /\ IsPrefix(last.key, o)) =>
    /\ last.found
    /\ DOMAIN tree = DOMAIN last.pre
    /\ tree = [last.pre EXCEPT ![last.key].value = nullopt]
    /\ get(tree, last.key) = nullopt
    /\ prefixSearch(tree, last.key)
    /\ \A o \in Keys \ {last.key} : get(tree, o) = get(last.pre, o)

\* A non-empty stored key that is a strict prefix of a stored key was removed.
C7_Witness ==
  /\ last.op = "remove"
  /\ last.found
  /\ last.key # Root
  /\ last.key \in Terminals(last.pre)
  /\ \E o \in StoredKeys : o # last.key /\ IsPrefix(last.key, o)

\* C8: autocomplete(prefix, -1) returns the values of all the stored keys
\* that begin with prefix.
C8_NoLimitReturnsAll ==
  (last.op = "autocomplete" /\ last.limit = -1) =>
    Len(last.results) = Cardinality(Matches(last.key))

\* C9: for a limit >= 0, autocomplete(prefix, limit) returns exactly
\* min(matches, limit) values, each the value of a distinct stored key that
\* begins with prefix, and nothing when the prefix path is missing or the
\* limit is 0.
C9_LimitSemantics ==
  (last.op = "autocomplete" /\ last.limit >= 0) =>
    /\ Len(last.results) = Min(Cardinality(Matches(last.key)), last.limit)
    /\ \A i \in 1..Len(last.results) : last.results[i] \in Values
    /\ \A v \in Values :
         Count(last.results, v)
           <= Cardinality({k \in Matches(last.key) : ref[k] = Some(v)})
    /\ (last.key \notin DOMAIN tree \/ last.limit = 0) => last.results = <<>>

\* Three keys begin with the prefix and the limit 2 cut the result short.
C9_Witness ==
  /\ last.op = "autocomplete"
  /\ last.limit = 2
  /\ Cardinality(Matches(last.key)) = 3
  /\ Len(last.results) = 2

C12_EmptyKeyAndRoot ==
  /\ Root \in DOMAIN tree
  /\ (last.op = "insert" /\ last.key = Root) =>
       /\ tree[Root].value = Some(last.value)
       /\ get(tree, Root) = Some(last.value)
       /\ tree = [last.pre EXCEPT ![Root].value = Some(last.value)]
  /\ (last.op = "remove" /\ last.key = Root /\ isEnd(last.pre, Root)) =>
       /\ last.found
       /\ get(tree, Root) = nullopt
       /\ tree = [last.pre EXCEPT ![Root].value = nullopt]
       /\ \A k \in Keys \ {Root} :
            /\ get(tree, k) = get(last.pre, k)
            /\ \A v \in Values :
                 /\ get(insert(tree, k, v), k) = Some(v)
                 /\ remove(insert(tree, k, v), k).ret
                 /\ get(remove(insert(tree, k, v), k).tree, k) = nullopt

\* The stored empty key was removed from a Trie that stores other keys: the
\* root is left valueless with its children in place.
C12_Witness ==
  /\ last.op = "remove"
  /\ last.key = Root
  /\ last.found
  /\ tree[Root].children # {}
  /\ StoredKeys # {}

\* C13: inserting a stored key k with a different value makes get(k) return
\* the new value, leaves the old one retrievable through neither get(k) nor
\* k's share of any autocomplete result, and creates no node: the set of
\* nodes, and everything but k's value, is as before.
C13_Overwrite ==
  (/\ last.op = "insert"
   /\ last.key \in Terminals(last.pre)
   /\ getValue(last.pre, last.key) # Some(last.value)) =>
    LET old == deref(getValue(last.pre, last.key))
    IN /\ get(tree, last.key) = Some(last.value)
       /\ last.made = 0
       /\ DOMAIN tree = DOMAIN last.pre
       /\ tree = [last.pre EXCEPT ![last.key].value = Some(last.value)]
       /\ \A p \in Keys : \A l \in Limits : \A res \in autocomplete(tree, p, l) :
            Count(res, old)
              <= Cardinality({k \in Matches(p) \ {last.key} :
                                ref[k] = Some(old)})

\* A stored key with a stored extension below it was given another value.
C13_Witness ==
  /\ last.op = "insert"
  /\ last.key \in Terminals(last.pre)
  /\ getValue(last.pre, last.key) # Some(last.value)
  /\ last.key # Root
  /\ hasChildren(tree, last.key)

\* C14: get, prefixSearch and autocomplete are read-only: whatever the key,
\* prefix or limit, the set of nodes and every node's value are after the
\* call what they were before it, and no node appears along a missing path.
C14_QueriesReadOnly ==
  last.op \in {"get", "prefixSearch", "autocomplete"} =>
    /\ DOMAIN tree = DOMAIN last.pre
    /\ \A n \in DOMAIN tree : tree[n] = last.pre[n]
    /\ \A k \in Keys : get(tree, k) = ref[k]

\* A query walked a key whose first character has a child and whose second
\* has none, on a Trie that stores keys.
C14_Witness ==
  /\ last.op \in {"get", "prefixSearch", "autocomplete"}
  /\ Len(last.key) = 2
  /\ last.key \notin DOMAIN tree
  /\ Parent(last.key) \in DOMAIN tree
  /\ StoredKeys # {}

\* C15: when prefix is itself a stored key and limit >= 1, the result of
\* autocomplete(prefix, limit) holds the value stored under prefix, as its
\* first element.
C15_PrefixValueFirst ==
  (last.op = "autocomplete" /\ last.limit >= 1 /\ ref[last.key] # nullopt) =>
    /\ Len(last.results) >= 1
    /\ last.results[1] = deref(ref[last.key])
    /\ \A l \in 1..MaxLimit : \A res \in autocomplete(tree, last.key, l) :
         Len(res) >= 1 /\ res[1] = deref(ref[last.key])

\* The prefix is a non-empty stored key with a stored extension holding
\* another value, and the limit 1 left room for one value only.
C15_Witness ==
  /\ last.op = "autocomplete"
  /\ last.limit = 1
  /\ last.key # Root
  /\ ref[last.key] # nullopt
  /\ \E k \in Matches(last.key) : ref[k] # ref[last.key]
  /\ Len(last.results) = 1

\* C16: insert(k, v) changes nothing outside k's path: no node goes, the
\* nodes it adds are the prefixes of k that were missing, each allocated
\* once and all but k's node valueless and with one child, only k's node
\* changes its value, and get(k') is as before for every other key k'.
C16_InsertFrame ==
  last.op = "insert" =>
    LET k == last.key
        pre == last.pre
        new == DOMAIN tree \ DOMAIN pre
    IN /\ DOMAIN pre \subseteq DOMAIN tree
       /\ new = {p \in Keys : IsPrefix(p, k) /\ p \notin DOMAIN pre}
       /\ last.made = Cardinality(new)
       /\ \A n \in new \ {k} :
            tree[n].value = nullopt /\ Cardinality(tree[n].children) = 1
       /\ \A n \in DOMAIN pre \ {k} : tree[n].value = pre[n].value
       /\ \A n \in DOMAIN pre :
            pre[n].children \subseteq tree[n].children
            /\ \A c \in tree[n].children \ pre[n].children :
                 IsPrefix(Append(n, c), k)
       /\ \A o \in Keys \ {k} : get(tree, o) = get(pre, o)

\* A two-character key was inserted next to its stored one-character prefix
\* and above nothing: one node was added and the prefix kept its value.
C16_Witness ==
  /\ last.op = "insert"
  /\ Len(last.key) = 2
  /\ last.made = 1
  /\ Parent(last.key) \in Terminals(last.pre)
  /\ Cardinality(Terminals(tree)) >= 3

\* C17: when k is not stored, insert(k, v) followed by remove(k) gives back
\* the Trie as it was before the insert: the same nodes with the same
\* children and values, every node the insert created being pruned again.
C17_InsertRemoveInverse ==
  (last.op = "insert" /\ get(last.pre, last.key) = nullopt) =>
    /\ remove(tree, last.key).ret
    /\ remove(tree, last.key).tree = last.pre
    /\ DOMAIN remove(tree, last.key).tree = DOMAIN last.pre

\* The insert of a key that was not stored created two nodes in a Trie that
\* stores other keys; the remove has both to prune.
C17_Witness ==
  /\ last.op = "insert"
  /\ get(last.pre, last.key) = nullopt
  /\ last.made = 2
  /\ Terminals(last.pre) # {}
  /\ remove(tree, last.key).ret

====
